---- MODULE Spec2Model ----
(***************************************************************************)
(* Session & Activity Analytics Engine of the wellness front end           *)
(* (AppProvider in frontend/src/components/Layout.tsx, with the HTTP       *)
(* client of frontend/src/services/api.ts and the types of                 *)
(* frontend/src/theme.ts).                                                 *)
(*                                                                         *)
(* React state is one variable per useState cell.  An async handler is     *)
(* split at its awaits: the part before the first await is the "call"      *)
(* action, each awaited response is a further action.  The closure values  *)
(* a handler reads (activityHistory, startTime, sessionId) are read in the *)
(* call action and kept in the handler's record; setters with an updater   *)
(* function (prev => ...) act on the current state.  The completedSteps    *)
(* cell and the completed_steps fields are only ever written with [] and   *)
(* are left out.  Clock readings, item ids and timestamps are milliseconds *)
(* as integers; Date.now().toString() and toISOString() are one-to-one on  *)
(* them.                                                                   *)
(***************************************************************************)
EXTENDS Integers, Sequences, FiniteSets, TLC

\* ---------------------------------------------------------------- bounds
MaxHist == 3
MaxTicks == 2
MaxSessions == 2

\* ------------------------------------------------------------- constants
MsPerSecond == 1000
\* the clock advances by half seconds, so that Math.round has work to do
TickMs == MsPerSecond \div 2
MaxClock == MaxTicks * TickMs
PointsPerMood == 10
MoodScale == 20

NoSession == 0
NoActivity == 0
NoTime == -1
NoError == "none"
NoItem == <<>>
Falsy == ""

\* ids the caller can pass: two catalogued activities and one unknown id
ActivityIds == {101, 102}
UnknownIds == {109}
Times == {t \in 0..(MaxClock + TickMs) : t % TickMs = 0}

\* moodLevel in twentieths: 1.0 and 2.55
MoodLevels == {20, 51}

defaultPreferences == "beginner-short"
PreferenceValues == {defaultPreferences, "advanced-long"}

\* activity definitions served by the remote catalog (type Activity)
Catalog(aid) ==
    IF aid = 101
    THEN [id |-> 101, title |-> "Physical Stretch", category |-> "Physical",
          categories |-> <<"Physical">>]
    ELSE [id |-> 102, title |-> "Mindfulness Breathing", category |-> Falsy,
          categories |-> <<>>]

\* activity.category || activity.categories[0] || 'general'
CategoryOf(activity) ==
    IF activity.category # Falsy THEN activity.category
    ELSE IF Len(activity.categories) > 0 /\ activity.categories[1] # Falsy
         THEN activity.categories[1]
         ELSE "general"

\* JSON.stringify / JSON.parse of a value kept under a localStorage key;
\* a missing key reads as null (NoItem)
Stringify(v) == <<v>>
Parse(s) == s[1]

\* Math.round((endTime - startTime) / 1000)
RoundSeconds(ms) == (2 * ms + MsPerSecond) \div (2 * MsPerSecond)

\* Math.floor(moodLevel * 10), moodLevel given in twentieths
PointsFor(mood) == (mood * PointsPerMood) \div MoodScale

VARIABLES
    sessionId, preferences, activeActivity, activityHistory, isLoading,
    error, activityProgress, startTime,
    localStorage, now, server,
    initCall, resetCall, startCall, completeCall, refreshCall, prefsCall,
    lastCall, http

state == <<sessionId, preferences, activeActivity, activityHistory,
           isLoading, error, activityProgress, startTime>>
calls == <<initCall, resetCall, startCall, completeCall, refreshCall,
           prefsCall>>
vars == <<sessionId, preferences, activeActivity, activityHistory, isLoading,
          error, activityProgress, startTime, localStorage, now, server,
          initCall, resetCall, startCall, completeCall, refreshCall,
          prefsCall, lastCall, http>>

Idle == [pc |-> "idle"]
AllIdle ==
    /\ initCall.pc = "idle" /\ resetCall.pc = "idle"
    /\ startCall.pc = "idle" /\ completeCall.pc = "idle"
    /\ refreshCall.pc = "idle" /\ prefsCall.pc = "idle"

EmptyStorage ==
    [sessionId |-> NoItem, activityHistory |-> NoItem,
     activityProgress |-> NoItem, userPreferences |-> NoItem]

\* the axios instance with no request in flight, the two token keys of
\* localStorage absent and the page where it was opened
NoReply == [url |-> "none", status |-> "none"]
NoHttp ==
    [stack |-> <<>>, access_token |-> NoItem, refresh_token |-> NoItem,
     location |-> "/", outcome |-> "none", reply |-> NoReply, issued |-> 0]

\* ------------------------------------------------------ history records
NoMood == 0

\* (variant: the appended item already marked completed)
StartItemCompleted(activity, t) ==
    [id |-> t, activity_id |-> activity.id, activity_title |-> activity.title,
     start_time |-> t, completed_at |-> NoTime, duration |-> 0,
     completed |-> TRUE, progress |-> 0, category |-> CategoryOf(activity),
     points |-> 0, mood_level |-> NoMood]

\* the ActivityHistoryItem built by startActivity
StartItem(activity, t) ==
    [id |-> t, activity_id |-> activity.id, activity_title |-> activity.title,
     start_time |-> t, completed_at |-> NoTime, duration |-> 0,
     completed |-> FALSE, progress |-> 0, category |-> CategoryOf(activity),
     points |-> 0, mood_level |-> NoMood]

\* the ActivityHistoryItem built by completeActivity; found is the item that
\* activityHistory.find returned, st the startTime state, end the time of the
\* call, t the clock reading after the remote call
CompletionItem(found, st, end, mood, t) ==
    [id |-> t, activity_id |-> found.id,
     activity_title |-> found.activity_title,
     start_time |-> st, completed_at |-> end,
     duration |-> RoundSeconds(end - st),
     completed |-> TRUE, progress |-> 1, category |-> found.category,
     points |-> PointsFor(mood), mood_level |-> mood]

\* activityHistory.find(a => a.id === activityId): index of the first match,
\* 0 when there is none
FindIndex(h, aid) ==
    IF \E i \in 1..Len(h) : h[i].id = aid
    THEN CHOOSE i \in 1..Len(h) :
            /\ h[i].id = aid
            /\ \A j \in 1..(i - 1) : h[j].id # aid
    ELSE 0

\* what the session server may hold as the session's activity_history
RemoteItem ==
    [id |-> 0, activity_id |-> 101, activity_title |-> "Physical Stretch",
     start_time |-> 0, completed_at |-> 0, duration |-> 0, completed |-> TRUE,
     progress |-> 1, category |-> "Physical", points |-> 10,
     mood_level |-> 20]
RemoteHistories == {<<>>, <<RemoteItem>>}

\* body of GET /session/{id}, shaped as the SessionResponse type
SessionResponse(sid, rh) ==
    [session_id |-> sid, preferences |-> server.prefs,
     activity_history |-> rh]

\* property read on a response object: <<value>>, or <<>> for undefined
Get(obj, field) == IF field \in DOMAIN obj THEN <<obj[field]>> ELSE <<>>

\* (variant: the property the response does carry)
SessionHistoryFieldSnake(session) == Get(session, "activity_history")

\* session.activityHistory as refreshActivityHistory reads it
SessionHistoryField(session) == Get(session, "activityHistory")

\* ------------------------------------------------------ call bookkeeping
NumCompleted(h) == Cardinality({i \in 1..Len(h) : h[i].completed})

\* what a call saw when it was invoked
Pre ==
    [len |-> Len(activityHistory), done |-> NumCompleted(activityHistory),
     act |-> activeActivity, st |-> startTime, sess |-> sessionId]

\* the record of a call that has returned: its arguments, what it saw when
\* invoked, how many catalog lookups succeeded (nOk, counted up to MaxHist),
\* whether its id named an open item (open), the start_time of the item find
\* returned (found), whether its remote call failed (apiFailed) and whether
\* it ended in its catch block (threw)
Summary(op, id, pre) ==
    [op |-> op, id |-> id, mood |-> NoMood, pre |-> pre, nOk |-> 0,
     open |-> FALSE, found |-> NoTime, apiFailed |-> FALSE, threw |-> FALSE,
     afterStart |-> FALSE, base |-> 0]

NoCall ==
    Summary("none", NoActivity,
            [len |-> 0, done |-> 0, act |-> NoActivity, st |-> NoTime,
             sess |-> NoSession])

\* the latest call that has returned
Return(rec) == lastCall' = rec

\* ------------------------------------------------------ initializeSession
\* the synchronous head of initializeSession: setIsLoading(true), read the
\* stored session id, send getSession or createSession
\* (variant: a session is created whatever is stored)
InitializeEntryAlwaysCreate(ls) == [pc |-> "createSession"]

InitializeEntry(ls) ==
    IF ls.sessionId # NoItem
    THEN [pc |-> "getSession", sid |-> ls.sessionId[1]]
    ELSE [pc |-> "createSession"]

Init ==
    /\ sessionId = NoSession
    /\ preferences = defaultPreferences
    /\ activeActivity = NoActivity
    /\ activityHistory = <<>>
    /\ isLoading = TRUE
    /\ error = NoError
    /\ activityProgress = [a \in {} |-> 0]
    /\ startTime = NoTime
    /\ localStorage = EmptyStorage
    /\ now = 0
    /\ server = [nextSession |-> 1, prefs |-> defaultPreferences]
    /\ initCall = InitializeEntry(EmptyStorage)
    /\ resetCall = Idle
    /\ startCall = Idle
    /\ completeCall = Idle
    /\ refreshCall = Idle
    /\ prefsCall = Idle
    /\ lastCall = NoCall
    /\ http = NoHttp

\* the caller of the initializeSession that is finishing: the mount effect,
\* or resetSession, whose finally block then runs as well
InitializeReturn ==
    /\ initCall' = Idle
    /\ isLoading' = FALSE
    /\ IF resetCall.pc = "awaitInit"
       THEN /\ resetCall' = Idle
            /\ Return(Summary("reset", NoActivity, resetCall.pre))
       ELSE /\ resetCall' = resetCall
            /\ Return(Summary("initialize", NoActivity, Pre))

\* loadSavedData: a key that is present replaces the state, a missing key
\* leaves it
LoadHistory(ls, current) ==
    IF ls.activityHistory # NoItem THEN Parse(ls.activityHistory) ELSE current
LoadProgress(ls, current) ==
    IF ls.activityProgress # NoItem THEN Parse(ls.activityProgress)
    ELSE current
LoadPreferences(ls, current) ==
    IF ls.userPreferences # NoItem THEN Parse(ls.userPreferences) ELSE current

\* getSession answered: setSessionId, setPreferences, then loadSavedData
InitGetSessionOk ==
    /\ initCall.pc = "getSession"
    /\ \E rh \in RemoteHistories :
         LET session == SessionResponse(initCall.sid, rh) IN
         /\ sessionId' = session.session_id
         /\ preferences' = LoadPreferences(localStorage, session.preferences)
    /\ activityHistory' = LoadHistory(localStorage, activityHistory)
    /\ activityProgress' = LoadProgress(localStorage, activityProgress)
    /\ InitializeReturn
    /\ UNCHANGED <<activeActivity, error, startTime, localStorage, now,
                   server, startCall, completeCall, refreshCall, prefsCall>>

\* getSession or createSession rejected: the catch block
InitRequestFail ==
    /\ initCall.pc \in {"getSession", "createSession"}
    /\ error' = "Network Error"
    /\ InitializeReturn
    /\ UNCHANGED <<sessionId, preferences, activeActivity, activityHistory,
                   activityProgress, startTime, localStorage, now, server,
                   startCall, completeCall, refreshCall, prefsCall>>

\* createSession answered with a new session id
InitCreateOk ==
    /\ initCall.pc = "createSession"
    /\ server.nextSession <= MaxSessions
    /\ sessionId' = server.nextSession
    /\ localStorage' = [localStorage EXCEPT !.sessionId = <<server.nextSession>>]
    /\ server' = [nextSession |-> server.nextSession + 1,
                  prefs |-> defaultPreferences]
    /\ InitializeReturn
    /\ UNCHANGED <<preferences, activeActivity, activityHistory, error,
                   activityProgress, startTime, now, startCall, completeCall,
                   refreshCall, prefsCall>>

\* ----------------------------------------------------------- startActivity
\* outcomes of getActivity other than an activity: the request rejects, or
\* the body is empty
LookupFailures(aid) ==
    IF aid \in ActivityIds THEN {"Network Error"}
    ELSE {"Network Error", "Activity not found"}

\* startActivity(activityId) up to its await of getActivity
StartCall(aid) ==
    /\ startCall.pc = "idle"
    /\ isLoading' = TRUE
    /\ startCall' = [pc |-> "fetch", id |-> aid, nOk |-> 0, pre |-> Pre]
    /\ UNCHANGED <<sessionId, preferences, activeActivity, activityHistory,
                   error, activityProgress, startTime, localStorage, now,
                   server, initCall, resetCall, completeCall, refreshCall,
                   prefsCall, lastCall>>

\* getActivity answered with the activity: lines 575-594, then line 595,
\* where the name startActivity is the handler itself (the const of line 567
\* shadows the import of line 310), so the handler is entered again and
\* awaits getActivity once more
StartFetchOk ==
    /\ startCall.pc = "fetch"
    /\ startCall.id \in ActivityIds
    /\ Len(activityHistory) < MaxHist
    /\ startTime' = now
    /\ activeActivity' = Catalog(startCall.id).id
    /\ activityHistory' =
         Append(activityHistory, StartItem(Catalog(startCall.id), now))
    /\ isLoading' = TRUE
    /\ startCall' = [startCall EXCEPT
                       !.nOk = IF @ < MaxHist THEN @ + 1 ELSE @]
    /\ UNCHANGED <<sessionId, preferences, error, activityProgress,
                   localStorage, now, server, initCall, resetCall,
                   completeCall, refreshCall, prefsCall, lastCall>>

\* (variant: startTime set before the lookup is awaited)
StartFetchFailAfterSetStartTime ==
    /\ startCall.pc = "fetch"
    /\ \E msg \in LookupFailures(startCall.id) : error' = msg
    /\ startTime' = now
    /\ isLoading' = FALSE
    /\ startCall' = Idle
    /\ Return([Summary("start", startCall.id, startCall.pre)
                 EXCEPT !.nOk = startCall.nOk, !.threw = TRUE])
    /\ UNCHANGED <<sessionId, preferences, activeActivity, activityHistory,
                   activityProgress, localStorage, now, server,
                   initCall, resetCall, completeCall, refreshCall, prefsCall>>

\* getActivity rejected or answered with nothing: the catch and finally
\* blocks of the innermost call, then the finally blocks of its callers
StartFetchFail ==
    /\ startCall.pc = "fetch"
    /\ \E msg \in LookupFailures(startCall.id) : error' = msg
    /\ isLoading' = FALSE
    /\ startCall' = Idle
    /\ Return([Summary("start", startCall.id, startCall.pre)
                 EXCEPT !.nOk = startCall.nOk, !.threw = TRUE])
    /\ UNCHANGED <<sessionId, preferences, activeActivity, activityHistory,
                   activityProgress, startTime, localStorage, now, server,
                   initCall, resetCall, completeCall, refreshCall, prefsCall>>

\* -------------------------------------------------------- completeActivity
\* an uncompleted item that no later completion record refers to
IsOpen(h, i) ==
    /\ ~h[i].completed
    /\ ~\E j \in (i + 1)..Len(h) :
           h[j].completed /\ h[j].activity_id = h[i].id

\* the caller's id names an open item, by item id or by catalog id
HasOpenMatch(h, aid) ==
    \E i \in 1..Len(h) :
        IsOpen(h, i) /\ (h[i].id = aid \/ h[i].activity_id = aid)

\* the call comes right after a start of the same id that found its activity,
\* invoked with a session and no active activity
AfterStart(aid) ==
    /\ lastCall.op = "start" /\ lastCall.id = aid /\ lastCall.nOk >= 1
    /\ lastCall.pre.act = NoActivity /\ lastCall.pre.sess # NoSession

\* completeActivity(activityId, moodLevel) when find returns nothing or
\* startTime is null: throw, catch, finally
CompleteCallReject(aid, mood) ==
    /\ completeCall.pc = "idle"
    /\ FindIndex(activityHistory, aid) = 0 \/ startTime = NoTime
    /\ error' = "Activity not found or not started"
    /\ isLoading' = FALSE
    /\ Return([Summary("complete", NoActivity, Pre)
                 EXCEPT !.threw = TRUE,
                        !.open = HasOpenMatch(activityHistory, aid),
                        !.afterStart = AfterStart(aid),
                        !.base = lastCall.pre.done])
    /\ UNCHANGED <<sessionId, preferences, activeActivity, activityHistory,
                   activityProgress, startTime, localStorage, now, server,
                   calls>>

\* completeActivity(activityId, moodLevel) up to its await of the remote
\* completion call
CompleteCall(aid, mood) ==
    /\ completeCall.pc = "idle"
    /\ FindIndex(activityHistory, aid) # 0
    /\ startTime # NoTime
    /\ isLoading' = TRUE
    /\ completeCall' =
         [pc |-> "post", id |-> aid, mood |-> mood,
          found |-> activityHistory[FindIndex(activityHistory, aid)],
          st |-> startTime, end |-> now,
          open |-> HasOpenMatch(activityHistory, aid), pre |-> Pre,
          afterStart |-> AfterStart(aid), base |-> lastCall.pre.done]
    /\ UNCHANGED <<sessionId, preferences, activeActivity, activityHistory,
                   error, activityProgress, startTime, localStorage, now,
                   server, initCall, resetCall, startCall, refreshCall,
                   prefsCall, lastCall>>

CompleteSummary ==
    [Summary("complete", completeCall.id, completeCall.pre)
       EXCEPT !.mood = completeCall.mood, !.open = completeCall.open,
              !.found = completeCall.found.start_time,
              !.afterStart = completeCall.afterStart,
              !.base = completeCall.base]

\* (variant: the completion leaves startTime set)
CompletePostOkKeepsStartTime ==
    /\ completeCall.pc = "post"
    /\ Len(activityHistory) < MaxHist
    /\ activityHistory' =
         Append(activityHistory,
                CompletionItem(completeCall.found, completeCall.st,
                               completeCall.end, completeCall.mood, now))
    /\ activeActivity' = NoActivity
    /\ isLoading' = FALSE
    /\ completeCall' = Idle
    /\ Return(CompleteSummary)
    /\ UNCHANGED <<sessionId, preferences, error, activityProgress, startTime,
                   localStorage, now, server, initCall, resetCall, startCall,
                   refreshCall, prefsCall>>

\* the remote completion call answered: lines 703-721 and the finally block
CompletePostOk ==
    /\ completeCall.pc = "post"
    /\ Len(activityHistory) < MaxHist
    /\ activityHistory' =
         Append(activityHistory,
                CompletionItem(completeCall.found, completeCall.st,
                               completeCall.end, completeCall.mood, now))
    /\ activeActivity' = NoActivity
    /\ startTime' = NoTime
    /\ isLoading' = FALSE
    /\ completeCall' = Idle
    /\ Return(CompleteSummary)
    /\ UNCHANGED <<sessionId, preferences, error, activityProgress,
                   localStorage, now, server, initCall, resetCall, startCall,
                   refreshCall, prefsCall>>

\* the remote completion call rejected: the catch and finally blocks
CompletePostFail ==
    /\ completeCall.pc = "post"
    /\ error' = "Network Error"
    /\ isLoading' = FALSE
    /\ completeCall' = Idle
    /\ Return([CompleteSummary EXCEPT !.apiFailed = TRUE, !.threw = TRUE])
    /\ UNCHANGED <<sessionId, preferences, activeActivity, activityHistory,
                   activityProgress, startTime, localStorage, now, server,
                   initCall, resetCall, startCall, refreshCall, prefsCall>>

\* ---------------------------------------------------- refreshActivityHistory
\* no session: setError and return, isLoading untouched
RefreshCallReject ==
    /\ refreshCall.pc = "idle"
    /\ sessionId = NoSession
    /\ error' = "No active session"
    /\ Return([Summary("refresh", NoActivity, Pre) EXCEPT !.threw = TRUE])
    /\ UNCHANGED <<sessionId, preferences, activeActivity, activityHistory,
                   isLoading, activityProgress, startTime, localStorage, now,
                   server, calls>>

RefreshCall ==
    /\ refreshCall.pc = "idle"
    /\ sessionId # NoSession
    /\ isLoading' = TRUE
    /\ refreshCall' = [pc |-> "getSession", sid |-> sessionId, pre |-> Pre]
    /\ UNCHANGED <<sessionId, preferences, activeActivity, activityHistory,
                   error, activityProgress, startTime, localStorage, now,
                   server, initCall, resetCall, startCall, completeCall,
                   prefsCall, lastCall>>

\* getSession answered: the history is replaced only if the response has
\* an activityHistory property
RefreshGetOk ==
    /\ refreshCall.pc = "getSession"
    /\ \E rh \in RemoteHistories :
         LET field == SessionHistoryField(SessionResponse(refreshCall.sid, rh))
         IN IF field # <<>>
            THEN /\ activityHistory' = field[1]
                 /\ localStorage' = [localStorage EXCEPT
                                       !.activityHistory = Stringify(field[1])]
            ELSE UNCHANGED <<activityHistory, localStorage>>
    /\ isLoading' = FALSE
    /\ refreshCall' = Idle
    /\ Return(Summary("refresh", NoActivity, refreshCall.pre))
    /\ UNCHANGED <<sessionId, preferences, activeActivity, error,
                   activityProgress, startTime, now, server, initCall,
                   resetCall, startCall, completeCall, prefsCall>>

RefreshGetFail ==
    /\ refreshCall.pc = "getSession"
    /\ error' = "Network Error"
    /\ isLoading' = FALSE
    /\ refreshCall' = Idle
    /\ Return([Summary("refresh", NoActivity, refreshCall.pre)
                 EXCEPT !.apiFailed = TRUE, !.threw = TRUE])
    /\ UNCHANGED <<sessionId, preferences, activeActivity, activityHistory,
                   activityProgress, startTime, localStorage, now, server,
                   initCall, resetCall, startCall, completeCall, prefsCall>>

\* ----------------------------------------------------- updateUserPreferences
PrefsCallReject(p) ==
    /\ prefsCall.pc = "idle"
    /\ sessionId = NoSession
    /\ error' = "No active session"
    /\ isLoading' = FALSE
    /\ Return([Summary("updatePreferences", NoActivity, Pre)
                 EXCEPT !.threw = TRUE])
    /\ UNCHANGED <<sessionId, preferences, activeActivity, activityHistory,
                   activityProgress, startTime, localStorage, now, server,
                   calls>>

PrefsCall(p) ==
    /\ prefsCall.pc = "idle"
    /\ sessionId # NoSession
    /\ isLoading' = TRUE
    /\ prefsCall' = [pc |-> "post", sid |-> sessionId, prefs |-> p,
                     pre |-> Pre]
    /\ UNCHANGED <<sessionId, preferences, activeActivity, activityHistory,
                   error, activityProgress, startTime, localStorage, now,
                   server, initCall, resetCall, startCall, completeCall,
                   refreshCall, lastCall>>

PrefsPostOk ==
    /\ prefsCall.pc = "post"
    /\ server' = [server EXCEPT !.prefs = prefsCall.prefs]
    /\ preferences' = prefsCall.prefs
    /\ localStorage' = [localStorage EXCEPT
                          !.userPreferences = Stringify(prefsCall.prefs)]
    /\ isLoading' = FALSE
    /\ prefsCall' = Idle
    /\ Return(Summary("updatePreferences", NoActivity, prefsCall.pre))
    /\ UNCHANGED <<sessionId, activeActivity, activityHistory, error,
                   activityProgress, startTime, now, initCall, resetCall,
                   startCall, completeCall, refreshCall>>

\* (variant: preferences set before the remote call is answered)
PrefsPostFailOptimistic ==
    /\ prefsCall.pc = "post"
    /\ error' = "Network Error"
    /\ preferences' = prefsCall.prefs
    /\ isLoading' = FALSE
    /\ prefsCall' = Idle
    /\ Return([Summary("updatePreferences", NoActivity, prefsCall.pre)
                 EXCEPT !.apiFailed = TRUE, !.threw = TRUE])
    /\ UNCHANGED <<sessionId, activeActivity, activityHistory,
                   activityProgress, startTime, localStorage, now, server,
                   initCall, resetCall, startCall, completeCall, refreshCall>>

\* the remote update rejected: the catch and finally blocks
PrefsPostFail ==
    /\ prefsCall.pc = "post"
    /\ error' = "Network Error"
    /\ isLoading' = FALSE
    /\ prefsCall' = Idle
    /\ Return([Summary("updatePreferences", NoActivity, prefsCall.pre)
                 EXCEPT !.apiFailed = TRUE, !.threw = TRUE])
    /\ UNCHANGED <<sessionId, preferences, activeActivity, activityHistory,
                   activityProgress, startTime, localStorage, now, server,
                   initCall, resetCall, startCall, completeCall, refreshCall>>

\* ---------------------------------------------------- updateActivityProgress
\* progress values in hundredths
ProgressIds == {101}
ProgressInputs == {150}

\* progress 1.0 in hundredths
ProgressScale == 100

\* getActivityProgress: activityProgress[activityId] || 0
GetActivityProgress(aid) ==
    IF aid \in DOMAIN activityProgress /\ activityProgress[aid] # 0
    THEN activityProgress[aid]
    ELSE 0

UpdateActivityProgress(aid, p) ==
    LET updated == [a \in DOMAIN activityProgress \cup {aid} |->
                      IF a = aid THEN p ELSE activityProgress[a]]
    IN /\ activityProgress' = updated
       /\ localStorage' = [localStorage EXCEPT
                             !.activityProgress = Stringify(updated)]
       /\ Return(Summary("updateProgress", aid, Pre))
       /\ UNCHANGED <<sessionId, preferences, activeActivity, activityHistory,
                      isLoading, error, startTime, now, server, calls>>

\* ------------------------------------------------------------- resetSession
\* resetSession up to the await inside the initializeSession it calls: the
\* keys are removed, the state is cleared, and initializeSession, finding no
\* stored session id, sends createSession
\* (variant: the progress map is not cleared)
ResetCallKeepsProgress ==
    /\ resetCall.pc = "idle"
    /\ initCall.pc = "idle"
    /\ localStorage' = EmptyStorage
    /\ sessionId' = NoSession
    /\ activityHistory' = <<>>
    /\ preferences' = defaultPreferences
    /\ activeActivity' = NoActivity
    /\ startTime' = NoTime
    /\ isLoading' = TRUE
    /\ initCall' = InitializeEntry(EmptyStorage)
    /\ resetCall' = [pc |-> "awaitInit", pre |-> Pre]
    /\ UNCHANGED <<activityProgress, error, now, server, startCall,
                   completeCall, refreshCall, prefsCall, lastCall>>

ResetCall ==
    /\ resetCall.pc = "idle"
    /\ initCall.pc = "idle"
    /\ localStorage' = EmptyStorage
    /\ sessionId' = NoSession
    /\ activityHistory' = <<>>
    /\ activityProgress' = [a \in {} |-> 0]
    /\ preferences' = defaultPreferences
    /\ activeActivity' = NoActivity
    /\ startTime' = NoTime
    /\ isLoading' = TRUE
    /\ initCall' = InitializeEntry(EmptyStorage)
    /\ resetCall' = [pc |-> "awaitInit", pre |-> Pre]
    /\ UNCHANGED <<error, now, server, startCall, completeCall, refreshCall,
                   prefsCall, lastCall>>

\* ------------------------------------------------------------- environment
ClearError ==
    /\ error # NoError
    /\ error' = NoError
    /\ UNCHANGED <<sessionId, preferences, activeActivity, activityHistory,
                   isLoading, activityProgress, startTime, localStorage, now,
                   server, calls, lastCall>>

\* the clock read by new Date() and Date.now()
Tick ==
    /\ now < MaxClock
    /\ now' = now + TickMs
    /\ UNCHANGED <<state, localStorage, server, calls, lastCall>>

\* the page is loaded again: the provider is constructed anew over the same
\* localStorage and its mount effect calls initializeSession
Reload ==
    /\ AllIdle
    /\ sessionId' = NoSession
    /\ preferences' = defaultPreferences
    /\ activeActivity' = NoActivity
    /\ activityHistory' = <<>>
    /\ isLoading' = TRUE
    /\ error' = NoError
    /\ activityProgress' = [a \in {} |-> 0]
    /\ startTime' = NoTime
    /\ initCall' = InitializeEntry(localStorage)
    /\ lastCall' = NoCall
    /\ UNCHANGED <<localStorage, now, server, resetCall, startCall,
                   completeCall, refreshCall, prefsCall>>

\* ids a caller can hand to completeActivity: catalog ids and item ids
CompleteIds == ActivityIds \cup Times

\* ------------------------------------------------------- specifications
\* Spec: the activity lifecycle.  The provider mounts over an empty
\* localStorage, then startActivity and completeActivity are called one at a
\* time while the clock advances.
Next ==
    \/ AllIdle /\ \E aid \in ActivityIds \cup UnknownIds : StartCall(aid)
       /\ UNCHANGED http
    \/ AllIdle /\ \E aid \in CompleteIds, mood \in MoodLevels :
                     CompleteCall(aid, mood) /\ UNCHANGED http
    \/ AllIdle /\ \E aid \in CompleteIds, mood \in MoodLevels :
                     CompleteCallReject(aid, mood) /\ UNCHANGED http
    \/ InitCreateOk /\ UNCHANGED http
    \/ InitRequestFail /\ UNCHANGED http
    \/ StartFetchOk /\ UNCHANGED http
    \/ StartFetchFail /\ UNCHANGED http
    \/ CompletePostOk /\ UNCHANGED http
    \/ CompletePostFail /\ UNCHANGED http
    \/ Tick /\ UNCHANGED http

Spec == Init /\ [][Next]_vars

\* StoreSpec: every operation of the provider, one at a time, with page
\* reloads, at one clock reading and with a history of at most MaxStoreHist
\* items.
MaxStoreHist == 2

StoreRoom == Len(activityHistory) < MaxStoreHist

StoreNext ==
    \/ AllIdle /\ \E aid \in ActivityIds \cup UnknownIds : StartCall(aid)
       /\ UNCHANGED http
    \/ AllIdle /\ \E aid \in CompleteIds, mood \in MoodLevels :
                     CompleteCall(aid, mood) /\ UNCHANGED http
    \/ AllIdle /\ \E aid \in CompleteIds, mood \in MoodLevels :
                     CompleteCallReject(aid, mood) /\ UNCHANGED http
    \/ AllIdle /\ RefreshCall /\ UNCHANGED http
    \/ AllIdle /\ RefreshCallReject /\ UNCHANGED http
    \/ AllIdle /\ \E p \in PreferenceValues : PrefsCall(p) /\ UNCHANGED http
    \/ AllIdle /\ \E p \in PreferenceValues : PrefsCallReject(p)
       /\ UNCHANGED http
    \/ AllIdle /\ \E aid \in ProgressIds, p \in ProgressInputs :
                     UpdateActivityProgress(aid, p) /\ UNCHANGED http
    \/ AllIdle /\ ResetCall /\ UNCHANGED http
    \/ InitGetSessionOk /\ UNCHANGED http
    \/ InitCreateOk /\ UNCHANGED http
    \/ InitRequestFail /\ UNCHANGED http
    \/ StoreRoom /\ StartFetchOk /\ UNCHANGED http
    \/ StartFetchFail /\ UNCHANGED http
    \/ StoreRoom /\ CompletePostOk /\ UNCHANGED http
    \/ CompletePostFail /\ UNCHANGED http
    \/ RefreshGetOk /\ UNCHANGED http
    \/ RefreshGetFail /\ UNCHANGED http
    \/ PrefsPostOk /\ UNCHANGED http
    \/ PrefsPostFail /\ UNCHANGED http
    \/ ClearError /\ UNCHANGED http
    \/ Reload /\ UNCHANGED http

StoreSpec == Init /\ [][StoreNext]_vars

\* OverlapSpec: startActivity and resetSession invoked whenever the
\* interface allows it, also while the other is suspended.  Every request
\* sent is answered, by a response or by the failure the 10 s timeout of the
\* axios instance raises (api.ts line 22): weak fairness of the responses.
OverlapNext ==
    \/ \E aid \in ActivityIds \cup UnknownIds : StartCall(aid)
       /\ UNCHANGED http
    \/ ResetCall /\ UNCHANGED http
    \/ InitCreateOk /\ UNCHANGED http
    \/ InitRequestFail /\ UNCHANGED http
    \/ StartFetchOk /\ UNCHANGED http
    \/ StartFetchFail /\ UNCHANGED http

OverlapSpec ==
    /\ Init
    /\ [][OverlapNext]_vars
    /\ WF_vars((StartFetchOk \/ StartFetchFail) /\ UNCHANGED http)
    /\ WF_vars((InitCreateOk \/ InitRequestFail) /\ UNCHANGED http)

\* ------------------------------------------------------------ interceptor
\* InterceptorSpec: requests sent through the axios instance of api.ts and
\* the answers to them.  http.stack holds the requests whose promise is
\* pending: the last one is at the server, each one below it is held by the
\* response interceptor, which awaits the '/auth/refresh' request above it.
MaxChain == 3
MaxRequests == 2

RefreshUrl == "/auth/refresh"
Urls == {"/auth/me", "/session/create"}

\* the config of a request sent for the first time; sends counts how often
\* the instance has sent it
Request(url, auth) ==
    [url |-> url, _retry |-> FALSE, sends |-> 1, Authorization |-> auth]

Top == http.stack[Len(http.stack)]

InterceptorInit ==
    /\ sessionId = 1
    /\ preferences = defaultPreferences
    /\ activeActivity = NoActivity
    /\ activityHistory = <<>>
    /\ isLoading = FALSE
    /\ error = NoError
    /\ activityProgress = [a \in {} |-> 0]
    /\ startTime = NoTime
    /\ localStorage = [EmptyStorage EXCEPT !.sessionId = <<1>>]
    /\ now = 0
    /\ server = [nextSession |-> 2, prefs |-> defaultPreferences]
    /\ initCall = Idle
    /\ resetCall = Idle
    /\ startCall = Idle
    /\ completeCall = Idle
    /\ refreshCall = Idle
    /\ prefsCall = Idle
    /\ lastCall = NoCall
    /\ \/ http = NoHttp
       \/ http = [NoHttp EXCEPT !.access_token = Stringify(0),
                                !.refresh_token = Stringify(0)]

\* a caller sends a request while none is pending
Send(url) ==
    /\ http.stack = <<>>
    /\ http.issued < MaxRequests
    /\ http' = [http EXCEPT !.stack = <<Request(url, NoItem)>>,
                            !.outcome = "none",
                            !.reply = NoReply,
                            !.issued = @ + 1]
    /\ UNCHANGED <<state, localStorage, now, server, calls, lastCall>>

\* the promise of the last request is rejected.  A request that no
\* interceptor awaits is the caller's: the caller gets the rejection.
\* Otherwise the rejection is thrown at the await of the interceptor below,
\* whose catch block removes the tokens, sets the location and rejects its
\* own request, and so on down to the caller's request.
Rejected(h, reply) ==
    IF Len(h.stack) = 1
    THEN [h EXCEPT !.stack = <<>>, !.outcome = "rejected", !.reply = reply]
    ELSE [h EXCEPT !.stack = <<>>, !.outcome = "rejected", !.reply = reply,
                   !.access_token = NoItem, !.refresh_token = NoItem,
                   !.location = "/login"]

\* the server answers the last request with a 2xx.  The caller's request
\* resolves; a refresh request resolves into the interceptor that awaits
\* it, which stores the two tokens of the answer and sends its own request
\* again with the new access token.
ResponseOk ==
    /\ http.stack # <<>>
    /\ LET n == Len(http.stack)
           reply == [url |-> Top.url, status |-> "2xx"]
           token == Stringify(http.issued + n)
       IN http' =
            IF n = 1
            THEN [http EXCEPT !.stack = <<>>, !.outcome = "resolved",
                              !.reply = reply]
            ELSE [http EXCEPT
                    !.stack = Append(SubSeq(@, 1, n - 2),
                                     [@[n - 1] EXCEPT
                                        !.sends = @ + 1,
                                        !.Authorization = token]),
                    !.access_token = token,
                    !.refresh_token = token,
                    !.reply = reply]
    /\ UNCHANGED <<state, localStorage, now, server, calls, lastCall>>

\* the server answers the last request with a 401.  A request not yet
\* marked is marked and a refresh request is sent with the stored refresh
\* token; a marked one is rejected.
Response401 ==
    /\ http.stack # <<>>
    /\ Top._retry \/ Len(http.stack) < MaxChain
    /\ LET n == Len(http.stack)
           reply == [url |-> Top.url, status |-> "401"]
       IN http' =
            IF ~Top._retry
            THEN [http EXCEPT
                    !.stack = Append([@ EXCEPT ![n]._retry = TRUE],
                                     Request(RefreshUrl, http.refresh_token)),
                    !.reply = reply]
            ELSE Rejected(http, reply)
    /\ UNCHANGED <<state, localStorage, now, server, calls, lastCall>>

\* the server answers the last request with another error status
ResponseError ==
    /\ http.stack # <<>>
    /\ http' = Rejected(http, [url |-> Top.url, status |-> "5xx"])
    /\ UNCHANGED <<state, localStorage, now, server, calls, lastCall>>

\* the last request gets no response (connection lost, or the timeout)
NetworkError ==
    /\ http.stack # <<>>
    /\ http' = Rejected(http, [url |-> Top.url, status |-> "none"])
    /\ UNCHANGED <<state, localStorage, now, server, calls, lastCall>>

InterceptorNext ==
    \/ \E url \in Urls : Send(url)
    \/ ResponseOk
    \/ Response401
    \/ ResponseError
    \/ NetworkError

InterceptorSpec == InterceptorInit /\ [][InterceptorNext]_vars

\* ---------------------------------------------------------------- analytics
\* 1000 * 60 * 60 * 24
MsPerDay == MsPerSecond * 60 * 60 * 24

\* [...activityHistory].sort((a, b) => time(b) - time(a)): a stable sort,
\* latest start_time first.  InsertDesc puts x behind the items that are
\* not earlier than it.
RECURSIVE InsertDesc(_, _)
InsertDesc(x, sorted) ==
    IF sorted = <<>> THEN <<x>>
    ELSE IF Head(sorted).start_time >= x.start_time
         THEN <<Head(sorted)>> \o InsertDesc(x, Tail(sorted))
         ELSE <<x>> \o sorted

RECURSIVE SortByStartDesc(_)
SortByStartDesc(h) ==
    IF h = <<>> THEN <<>>
    ELSE InsertDesc(h[Len(h)], SortByStartDesc(SubSeq(h, 1, Len(h) - 1)))

\* one pass of the for loop of getStreakInfo; acc holds currentStreak,
\* longestStreak, streakStartDate and previousDate
StreakStep(acc, activity) ==
    LET dayDiff == (acc.previousDate - activity.start_time) \div MsPerDay
        bumped == acc.currentStreak + 1
    IN IF dayDiff <= 1
       THEN [currentStreak |-> bumped,
             longestStreak |-> IF bumped > acc.longestStreak
                               THEN bumped ELSE acc.longestStreak,
             streakStartDate |-> IF bumped > acc.longestStreak
                                 THEN activity.start_time
                                 ELSE acc.streakStartDate,
             previousDate |-> activity.start_time]
       ELSE [acc EXCEPT !.currentStreak = 1,
                        !.previousDate = activity.start_time]

RECURSIVE StreakLoop(_, _)
StreakLoop(acc, sorted) ==
    IF sorted = <<>> THEN acc
    ELSE StreakLoop(StreakStep(acc, Head(sorted)), Tail(sorted))

\* getStreakInfo() on the log h (streakHistory, always [], left out)
GetStreakInfo(h) ==
    LET sortedActivities == SortByStartDesc(h) IN
    IF Len(sortedActivities) > 0
    THEN LET lastActivityDate == sortedActivities[1].start_time
             acc == StreakLoop([currentStreak |-> 0, longestStreak |-> 0,
                                streakStartDate |-> NoTime,
                                previousDate |-> lastActivityDate],
                               sortedActivities)
         IN [currentStreak |-> acc.currentStreak,
             longestStreak |-> acc.longestStreak,
             lastActivityDate |-> lastActivityDate,
             streakStartDate |-> acc.streakStartDate]
    ELSE [currentStreak |-> 0, longestStreak |-> 0,
          lastActivityDate |-> NoTime, streakStartDate |-> NoTime]

\* a / b in JavaScript numbers, kept as the fraction: 0 / 0 is NaN
Ratio(a, b) == [num |-> a, den |-> b]
IsNaN(r) == r.den = 0 /\ r.num = 0

RECURSIVE SumOf(_)
SumOf(s) == IF s = <<>> THEN 0 ELSE Head(s) + SumOf(Tail(s))

\* the keys of an object that was filled key by key, in insertion order
RECURSIVE KeysInOrder(_)
KeysInOrder(s) ==
    IF s = <<>> THEN <<>>
    ELSE LET before == KeysInOrder(SubSeq(s, 1, Len(s) - 1)) IN
         IF \E i \in 1..Len(before) : before[i] = s[Len(s)]
         THEN before
         ELSE Append(before, s[Len(s)])

CountOf(s, k) == Cardinality({i \in 1..Len(s) : s[i] = k})

\* Object.entries(counts).sort(([, a], [, b]) => b - a)[0]?.[0] || none:
\* the sort is stable, so among the keys with the highest count the one
\* inserted first comes first
FirstByCount(s, none) ==
    LET keys == KeysInOrder(s) IN
    IF keys = <<>> THEN none
    ELSE keys[CHOOSE i \in 1..Len(keys) :
                /\ \A j \in 1..Len(keys) :
                      CountOf(s, keys[j]) <= CountOf(s, keys[i])
                /\ \A j \in 1..(i - 1) :
                      CountOf(s, keys[j]) < CountOf(s, keys[i])]

\* sorted[sorted.length - 1]?.[0] || none of the same sort: among the keys
\* with the lowest count the one inserted last
LastByCount(s, none) ==
    LET keys == KeysInOrder(s) IN
    IF keys = <<>> THEN none
    ELSE keys[CHOOSE i \in 1..Len(keys) :
                /\ \A j \in 1..Len(keys) :
                      CountOf(s, keys[j]) >= CountOf(s, keys[i])
                /\ \A j \in (i + 1)..Len(keys) :
                      CountOf(s, keys[j]) > CountOf(s, keys[i])]

\* activityHistory.filter(activity => activity.completed)
RECURSIVE CompletedOf(_)
CompletedOf(h) ==
    IF h = <<>> THEN <<>>
    ELSE IF Head(h).completed
         THEN <<Head(h)>> \o CompletedOf(Tail(h))
         ELSE CompletedOf(Tail(h))

\* (variant: the rate taken over the completed items)
CompletionRateOfCompleted(h) ==
    IF Len(h) # 0
    THEN Ratio(Len(CompletedOf(h)) * 100, Len(CompletedOf(h)))
    ELSE Ratio(0, 1)

\* activityHistory.length ? (completed.length / length) * 100 : 0
CompletionRateOf(h) ==
    IF Len(h) # 0 THEN Ratio(Len(CompletedOf(h)) * 100, Len(h))
    ELSE Ratio(0, 1)

\* getActivityStats() on the log h
GetActivityStats(h) ==
    LET completedActivities == CompletedOf(h)
        n == Len(completedActivities)
        totalDuration ==
            SumOf([i \in 1..n |-> completedActivities[i].duration])
        totalPoints ==
            SumOf([i \in 1..n |-> completedActivities[i].points])
        streak == GetStreakInfo(h)
    IN [totalActivities |-> Len(h),
        completedActivities |-> n,
        totalDuration |-> totalDuration,
        averageDuration |->
            IF n # 0 THEN Ratio(totalDuration, n) ELSE Ratio(0, 1),
        mostFrequentCategory |->
            FirstByCount([i \in 1..n |-> completedActivities[i].category],
                         "None"),
        completionRate |-> CompletionRateOf(h),
        longestStreak |-> streak.longestStreak,
        currentStreak |-> streak.currentStreak,
        totalPoints |-> totalPoints,
        averagePointsPerActivity |->
            IF n # 0 THEN Ratio(totalPoints, n) ELSE Ratio(0, 1)]

\* activity.activity_title.split(' ')[0] for the titles of the catalog
FirstWord(title) ==
    IF title = "Physical Stretch" THEN "Physical"
    ELSE IF title = "Mindfulness Breathing" THEN "Mindfulness"
         ELSE title

TitleKeys(h) == [i \in 1..Len(h) |-> FirstWord(h[i].activity_title)]

\* the categoryStats entry of key k after the forEach of getCategoryStats:
\* count, totalDuration and averageDuration accumulate; completionRate and
\* lastActivity are overwritten by every item of the key
CategoryEntry(h, k) ==
    LET items == SelectSeq(h, LAMBDA a : FirstWord(a.activity_title) = k)
        count == Len(items)
        totalDuration == SumOf([i \in 1..count |-> items[i].duration])
    IN [count |-> count,
        totalDuration |-> totalDuration,
        averageDuration |-> Ratio(totalDuration, count),
        completionRate |->
            Ratio(IF items[count].completed THEN 1 ELSE 0, count),
        lastActivity |-> items[count].start_time]

\* getCategoryStats() on the log h
GetCategoryStats(h) ==
    LET keys == KeysInOrder(TitleKeys(h))
        categoryStats ==
            [k \in {keys[i] : i \in 1..Len(keys)} |-> CategoryEntry(h, k)]
    IN [categories |-> categoryStats,
        mostFrequentCategory |-> FirstByCount(TitleKeys(h), "None"),
        leastFrequentCategory |-> LastByCount(TitleKeys(h), "None"),
        categoryDistribution |->
            [i \in 1..Len(keys) |->
                [category |-> keys[i],
                 percentage |->
                     Ratio(categoryStats[keys[i]].count * 100, Len(h))]]]

\* the Date of a start_time, read in UTC; the logs lie in January 1970,
\* which began on a Thursday
MsPerHour == MsPerSecond * 60 * 60
GetHours(t) == (t % MsPerDay) \div MsPerHour
EpochDay(t) == t \div MsPerDay
GetDate(t) == EpochDay(t) + 1
GetDay(t) == (4 + EpochDay(t)) % 7

\* date.getHours() < 12 ? 'morning' : date.getHours() < 17 ? 'afternoon'
\* : 'evening'
TimeOfDay(t) ==
    IF GetHours(t) < 12 THEN "morning"
    ELSE IF GetHours(t) < 17 THEN "afternoon" ELSE "evening"

TimeOfDayKeys(h) == [i \in 1..Len(h) |-> TimeOfDay(h[i].start_time)]
DayOfWeekKeys(h) == [i \in 1..Len(h) |-> GetDay(h[i].start_time)]

\* Math.ceil((date.getDate() + date.getDay()) / 7)
WeekOf(t) == (GetDate(t) + GetDay(t) + 6) \div 7

\* count and duration accumulated over the items of one key
Tally(items) ==
    [count |-> Len(items),
     duration |-> SumOf([i \in 1..Len(items) |-> items[i].duration])]

MonthOf(t) == 1

\* getTimeBasedStats() on the log h
GetTimeBasedStats(h) ==
    LET days == {EpochDay(h[i].start_time) : i \in 1..Len(h)}
        weeks == {WeekOf(h[i].start_time) : i \in 1..Len(h)}
        months == {MonthOf(h[i].start_time) : i \in 1..Len(h)}
        OnDay(d) == SelectSeq(h, LAMBDA a : EpochDay(a.start_time) = d)
        InWeek(w) == SelectSeq(h, LAMBDA a : WeekOf(a.start_time) = w)
        InMonth(m) == SelectSeq(h, LAMBDA a : MonthOf(a.start_time) = m)
    IN [dailyStats |->
            [d \in days |->
                [count |-> Tally(OnDay(d)).count,
                 duration |-> Tally(OnDay(d)).duration,
                 categories |-> KeysInOrder(TitleKeys(OnDay(d)))]],
        weeklyStats |->
            [w \in weeks |->
                [count |-> Tally(InWeek(w)).count,
                 duration |-> Tally(InWeek(w)).duration,
                 averageDuration |->
                     Ratio(Tally(InWeek(w)).duration,
                           Tally(InWeek(w)).count)]],
        monthlyStats |->
            [m \in months |->
                [count |-> Tally(InMonth(m)).count,
                 duration |-> Tally(InMonth(m)).duration,
                 mostActiveDay |-> ""]],
        bestTimeOfDay |-> FirstByCount(TimeOfDayKeys(h), "unknown"),
        mostActiveDay |-> FirstByCount(DayOfWeekKeys(h), "unknown")]

\* a categoryPreferences or timeBasedPreferences entry: recommended counts
\* the items of the key, accepted the completed ones
PreferenceEntry(items) ==
    [recommended |-> Len(items),
     accepted |-> Len(CompletedOf(items)),
     accuracy |-> Ratio(Len(CompletedOf(items)) * 100, Len(items))]

\* (variant: the accuracy left as a fraction of 1)
RecommendationAccuracyFraction(h) == Ratio(Len(CompletedOf(h)), Len(h))

\* (acceptedRecommendations / totalRecommendations) * 100
RecommendationAccuracy(h) == Ratio(Len(CompletedOf(h)) * 100, Len(h))

\* getRecommendationStats() on the log h
GetRecommendationStats(h) ==
    LET categories == {TitleKeys(h)[i] : i \in 1..Len(h)}
        times == {TimeOfDayKeys(h)[i] : i \in 1..Len(h)}
    IN [totalRecommendations |-> Len(h),
        acceptedRecommendations |-> Len(CompletedOf(h)),
        recommendationAccuracy |-> RecommendationAccuracy(h),
        categoryPreferences |->
            [k \in categories |->
                PreferenceEntry(SelectSeq(h, LAMBDA a :
                                   FirstWord(a.activity_title) = k))],
        timeBasedPreferences |->
            [k \in times |->
                PreferenceEntry(SelectSeq(h, LAMBDA a :
                                   TimeOfDay(a.start_time) = k))]]

\* AnalyticsSpec: the analytics functions applied to a log.  The log is any
\* sequence of at most MaxLogLen items in the order of their start times:
\* either items of one activity started at midnight or noon of the days
\* 0..MaxDay, or items of either activity, completed or not, started in the
\* morning, afternoon or evening of day 0 or in the morning of day 1.
MaxLogLen == 4
MaxDay == 4

DayTimes ==
    {d * MsPerDay + h : d \in 0..MaxDay, h \in {0, MsPerDay \div 2}}

LogTimes ==
    {ts \in UNION {[1..n -> DayTimes] : n \in 0..MaxLogLen} :
        \A i \in 1..(Len(ts) - 1) : ts[i] <= ts[i + 1]}

LogOf(ts) == [i \in 1..Len(ts) |-> StartItem(Catalog(101), ts[i])]

StatTimes == {0, 12 * MsPerHour, 18 * MsPerHour, MsPerDay}

\* an item of the log: the one startActivity appends, or the one
\* completeActivity appends a second after the start
StatItem(t, aid, done) ==
    IF done
    THEN CompletionItem(StartItem(Catalog(aid), t), t, t + MsPerSecond,
                        CHOOSE m \in MoodLevels : \A n \in MoodLevels : m <= n,
                        t + MsPerSecond)
    ELSE StartItem(Catalog(aid), t)

\* the start times of a log of n items, in the order of the log
StatTimesOfLen(n) ==
    {ts \in [1..n -> StatTimes] :
        \A i \in 1..(n - 1) : ts[i] <= ts[i + 1]}

\* the log whose i-th item started at ts[i], of the activity ks[i][1],
\* completed or not (ks[i][2])
StatLogOf(ts, ks) ==
    [i \in 1..Len(ts) |-> StatItem(ts[i], ks[i][1], ks[i][2])]

AnalyticsInit ==
    /\ sessionId = 1
    /\ preferences = defaultPreferences
    /\ activeActivity = NoActivity
    /\ \/ \E ts \in LogTimes : activityHistory = LogOf(ts)
       \/ \E n \in 0..MaxLogLen :
             \E ts \in StatTimesOfLen(n),
                ks \in [1..n -> ActivityIds \X BOOLEAN] :
                activityHistory = StatLogOf(ts, ks)
    /\ isLoading = FALSE
    /\ error = NoError
    /\ activityProgress = [a \in {} |-> 0]
    /\ startTime = NoTime
    /\ localStorage = [EmptyStorage EXCEPT !.sessionId = <<1>>]
    /\ now = 0
    /\ server = [nextSession |-> 2, prefs |-> defaultPreferences]
    /\ initCall = Idle
    /\ resetCall = Idle
    /\ startCall = Idle
    /\ completeCall = Idle
    /\ refreshCall = Idle
    /\ prefsCall = Idle
    /\ lastCall = NoCall
    /\ http = NoHttp

\* a component calls getStreakInfo() and gets its result
GetStreakInfoCall ==
    /\ lastCall.op = "none"
    /\ lastCall' = [op |-> "getStreakInfo",
                    result |-> GetStreakInfo(activityHistory)]
    /\ UNCHANGED <<state, localStorage, now, server, calls>>

\* a component calls getActivityStats() and gets its result
GetActivityStatsCall ==
    /\ lastCall.op = "none"
    /\ lastCall' = [op |-> "getActivityStats",
                    result |-> GetActivityStats(activityHistory)]
    /\ UNCHANGED <<state, localStorage, now, server, calls>>

\* a component calls getCategoryStats() and gets its result
GetCategoryStatsCall ==
    /\ lastCall.op = "none"
    /\ lastCall' = [op |-> "getCategoryStats",
                    result |-> GetCategoryStats(activityHistory)]
    /\ UNCHANGED <<state, localStorage, now, server, calls>>

\* a component calls getTimeBasedStats() and gets its result
GetTimeBasedStatsCall ==
    /\ lastCall.op = "none"
    /\ lastCall' = [op |-> "getTimeBasedStats",
                    result |-> GetTimeBasedStats(activityHistory)]
    /\ UNCHANGED <<state, localStorage, now, server, calls>>

\* a component calls getRecommendationStats() and gets its result
GetRecommendationStatsCall ==
    /\ lastCall.op = "none"
    /\ lastCall' = [op |-> "getRecommendationStats",
                    result |-> GetRecommendationStats(activityHistory)]
    /\ UNCHANGED <<state, localStorage, now, server, calls>>

AnalyticsNext ==
    \/ GetStreakInfoCall /\ UNCHANGED http
    \/ GetActivityStatsCall /\ UNCHANGED http
    \/ GetCategoryStatsCall /\ UNCHANGED http
    \/ GetTimeBasedStatsCall /\ UNCHANGED http
    \/ GetRecommendationStatsCall /\ UNCHANGED http

AnalyticsSpec == AnalyticsInit /\ [][AnalyticsNext]_vars

\* ----------------------------------------------------------------- claims
\* C1: a call of startActivity runs to completion: once invoked, after
\* finitely many catalog fetches and history appends it has returned.  (A
\* call whose lookup fails returns at once, so a run that violates this is
\* one in which every lookup of the call succeeds.)
C1_StartReturns == (startCall.pc = "fetch") ~> (startCall.pc = "idle")

LastItem == activityHistory[Len(activityHistory)]

\* the call op has returned and no other call has been invoked since
Returned(op) == AllIdle /\ lastCall.op = op

\* C2: start(id) for a catalogued id, invoked with a session and no active
\* activity, followed at once by complete(id, mood), leaves exactly one more
\* item with completed = true, and that item has a completed_at.
C2_StartThenComplete ==
    (Returned("complete") /\ lastCall.afterStart)
    => /\ NumCompleted(activityHistory) = lastCall.base + 1
       /\ LastItem.completed
       /\ LastItem.completed_at # NoTime

\* C3: a start whose catalog lookup succeeded has appended exactly one item,
\* which is uncompleted with progress 0 and no completed_at, and has made
\* the fetched activity the active one with a startTime.
C3_StartAppendsOne ==
    (Returned("start") /\ lastCall.nOk >= 1)
    => /\ Len(activityHistory) = lastCall.pre.len + 1
       /\ ~LastItem.completed
       /\ LastItem.progress = 0
       /\ LastItem.completed_at = NoTime
       /\ LastItem.activity_id = lastCall.id
       /\ activeActivity = lastCall.id
       /\ startTime = LastItem.start_time

\* C4: complete(id, mood) with no open item matching id, or with no
\* startTime, fails: it never gets as far as its remote call, and it returns
\* with an error and with history, active activity and startTime untouched.
C4_CompleteFailsFast ==
    /\ completeCall.pc = "post" => completeCall.open
    /\ (Returned("complete")
        /\ (~lastCall.open \/ lastCall.pre.st = NoTime))
       => /\ lastCall.threw
          /\ error # NoError
          /\ Len(activityHistory) = lastCall.pre.len
          /\ activeActivity = lastCall.pre.act
          /\ startTime = lastCall.pre.st

\* C5: a complete that succeeded has appended one record with completed =
\* true, progress 1, the caller's mood_level, points = floor(moodLevel * 10)
\* and a duration counted from the start of the attempt it completes, and
\* has cleared the active activity and startTime.
C5_CompletionRecord ==
    (Returned("complete") /\ ~lastCall.threw)
    => /\ Len(activityHistory) = lastCall.pre.len + 1
       /\ LastItem.completed
       /\ LastItem.progress = 1
       /\ LastItem.mood_level = lastCall.mood
       /\ LastItem.points * MoodScale <= lastCall.mood * PointsPerMood
       /\ lastCall.mood * PointsPerMood < (LastItem.points + 1) * MoodScale
       /\ LastItem.duration
            = RoundSeconds(LastItem.completed_at - lastCall.found)
       /\ activeActivity = NoActivity
       /\ startTime = NoTime

\* C6: at most one history item is open.
C6_AtMostOneOpen ==
    Cardinality({i \in 1..Len(activityHistory) :
                    IsOpen(activityHistory, i)}) <= 1

IsPrefix(a, b) == Len(a) <= Len(b) /\ SubSeq(b, 1, Len(a)) = a

\* resetSession is entered
ResetStep == resetCall.pc = "idle" /\ resetCall'.pc = "awaitInit"
\* the page is loaded again and a new provider, with an empty log, mounts
ReloadStep == initCall.pc = "idle" /\ initCall'.pc # "idle" /\ ~ResetStep

StoredSession(ls) ==
    IF ls.sessionId # NoItem THEN ls.sessionId[1] ELSE NoSession

\* C8: when a mutation has succeeded, what the durable keys hold is what a
\* newly mounted provider would load as history, progress and preferences,
\* and the sessionId key holds the session id.
C8_DurableSnapshot ==
    (/\ AllIdle
     /\ lastCall.op \in {"start", "complete", "updateProgress",
                         "updatePreferences", "refresh"}
     /\ lastCall.op = "start" => lastCall.nOk >= 1
     /\ lastCall.op # "start" => ~lastCall.threw)
    => /\ LoadHistory(localStorage, <<>>) = activityHistory
       /\ LoadProgress(localStorage, [a \in {} |-> 0]) = activityProgress
       /\ LoadPreferences(localStorage, server.prefs) = preferences
       /\ StoredSession(localStorage) = sessionId

\* C9: when the remote completion call of a valid complete fails, the
\* completion record is appended all the same and the active activity is
\* cleared.
C9_BestEffortNotify ==
    (Returned("complete") /\ lastCall.apiFailed /\ lastCall.open)
    => /\ Len(activityHistory) = lastCall.pre.len + 1
       /\ LastItem.completed
       /\ activeActivity = NoActivity

\* C10: a call of startActivity whose catalog lookup fails or finds nothing
\* appends no record, leaves the active activity and startTime as they were
\* and reports an error.
C10_FailedLookup ==
    [][(startCall.pc = "fetch" /\ startCall'.pc = "idle")
       => /\ activityHistory' = activityHistory
          /\ activeActivity' = activeActivity
          /\ startTime' = startTime
          /\ error' # NoError]_vars

C10_Witness ==
    /\ lastCall.op = "start" /\ lastCall.nOk = 0 /\ lastCall.threw
    /\ error = "Activity not found"
    /\ activeActivity # NoActivity

\* a step in which updateUserPreferences ends in its catch block
PrefsFailStep ==
    /\ lastCall'.op = "updatePreferences" /\ lastCall'.threw
    /\ \/ prefsCall.pc = "post" /\ prefsCall'.pc = "idle"
       \/ calls' = calls /\ lastCall' # lastCall

\* C11: updateUserPreferences is write-through.  The remote update is sent
\* only with a session; preferences and the userPreferences key change in no
\* step of the call but the one in which the remote update was answered,
\* where both take the new value; a call without a session or with a failed
\* remote update leaves both as they were and sets error.
C11_WriteThrough ==
    [][/\ (prefsCall.pc = "idle" /\ prefsCall'.pc = "post")
          => /\ sessionId # NoSession
             /\ preferences' = preferences
             /\ localStorage' = localStorage
       /\ PrefsFailStep
          => /\ preferences' = preferences
             /\ localStorage' = localStorage
             /\ error' # NoError
       /\ (prefsCall.pc = "post" /\ prefsCall'.pc = "idle"
           /\ ~lastCall'.threw)
          => /\ preferences' = prefsCall.prefs
             /\ Parse(localStorage'.userPreferences) = prefsCall.prefs]_vars

C11_Witness ==
    /\ Returned("updatePreferences") /\ ~lastCall.threw
    /\ preferences # defaultPreferences
    /\ localStorage.userPreferences = Stringify(preferences)

\* C12: when resetSession returns and its createSession was answered, the
\* history and the progress map are empty, the preferences are the defaults,
\* there is no active activity and no startTime, and sessionId is the id the
\* server has just created, which the sessionId key holds as well.
C12_ResetClean ==
    [][(/\ resetCall.pc = "awaitInit" /\ resetCall'.pc = "idle"
        /\ server'.nextSession # server.nextSession)
       => /\ activityHistory' = <<>>
          /\ DOMAIN activityProgress' = {}
          /\ preferences' = defaultPreferences
          /\ activeActivity' = NoActivity
          /\ startTime' = NoTime
          /\ sessionId' = server.nextSession
          /\ sessionId' # resetCall.pre.sess
          /\ localStorage'.sessionId # NoItem
          /\ StoredSession(localStorage') = sessionId']_vars

C12_Witness ==
    /\ Returned("reset")
    /\ lastCall.pre.sess # NoSession /\ lastCall.pre.len > 0
    /\ lastCall.pre.act # NoActivity
    /\ sessionId # NoSession /\ sessionId # lastCall.pre.sess
    /\ activityHistory = <<>>

\* C13: when the mount finds a stored session id and its getSession fails,
\* initializeSession restores history, progress map and preferences from
\* the stored keys and sets error.
C13_InitFallback ==
    [][(/\ initCall.pc = "getSession" /\ initCall'.pc = "idle"
        /\ sessionId' = NoSession)
       => /\ activityHistory' = LoadHistory(localStorage, <<>>)
          /\ activityProgress' = LoadProgress(localStorage, [a \in {} |-> 0])
          /\ preferences' = LoadPreferences(localStorage, defaultPreferences)
          /\ error' # NoError]_vars

\* C14: initializeSession sends createSession only when the sessionId key is
\* missing, and getSession only when it is present; a session comes into
\* being on the server only in the step that answers that createSession,
\* one per call, and that step puts the new id in sessionId and under the
\* sessionId key.
C14_CreateOnce ==
    [][/\ (server'.nextSession # server.nextSession)
          => /\ initCall.pc = "createSession" /\ initCall'.pc = "idle"
             /\ localStorage.sessionId = NoItem
             /\ server'.nextSession = server.nextSession + 1
             /\ sessionId' = server.nextSession
             /\ localStorage'.sessionId = <<server.nextSession>>
       /\ (initCall.pc = "idle" /\ initCall'.pc = "createSession")
          => localStorage'.sessionId = NoItem
       /\ (initCall.pc = "idle" /\ initCall'.pc = "getSession")
          => /\ localStorage'.sessionId # NoItem
             /\ initCall'.sid = StoredSession(localStorage')]_vars

C14_Witness ==
    /\ Returned("initialize")
    /\ sessionId = 1 /\ server.nextSession = 2
    /\ StoredSession(localStorage) = 1
    /\ DOMAIN activityProgress # {}

\* C15: refreshActivityHistory with a session, when its getSession is
\* answered, makes the history returned by the server the in-memory history
\* and the value of the activityHistory key; with no session it sets error
\* and changes neither.
C15_RefreshReplaces ==
    [][/\ (/\ refreshCall.pc = "getSession" /\ refreshCall'.pc = "idle"
           /\ ~lastCall'.threw)
          => \E rh \in RemoteHistories :
                /\ activityHistory' = rh
                /\ localStorage'.activityHistory = Stringify(rh)
       /\ (/\ sessionId = NoSession /\ calls' = calls
           /\ lastCall'.op = "refresh" /\ lastCall' # lastCall)
          => /\ error' # NoError
             /\ activityHistory' = activityHistory
             /\ localStorage' = localStorage]_vars

\* the state is one that a further initializeSession, which finds the stored
\* session id and is answered by the server as it stands, leaves as it is
InitializeAgainSame ==
    /\ localStorage.sessionId # NoItem
    /\ sessionId = SessionResponse(StoredSession(localStorage), <<>>).session_id
    /\ preferences = LoadPreferences(localStorage, server.prefs)
    /\ activityHistory = LoadHistory(localStorage, activityHistory)
    /\ activityProgress = LoadProgress(localStorage, activityProgress)

\* the state is one that a further refreshActivityHistory answered with the
\* remote history rh leaves as it is
RefreshAgainSame(rh) ==
    LET field == SessionHistoryField(SessionResponse(sessionId, rh))
    IN field # <<>>
       => /\ activityHistory = field[1]
          /\ localStorage.activityHistory = Stringify(field[1])

\* C16: retrying is idempotent.  The state in which initializeSession
\* returns with a session, and the state in which refreshActivityHistory
\* returns after its getSession was answered, are states that running the
\* same operation once more against the unchanged server does not change:
\* sessionId, preferences, history, progress map and localStorage stay.
C16_RetryIdempotent ==
    /\ (Returned("initialize") /\ sessionId # NoSession)
       => InitializeAgainSame
    /\ (Returned("refresh") /\ ~lastCall.threw)
       => \E rh \in RemoteHistories : RefreshAgainSame(rh)

\* C17: every value of the progress map, and every value getActivityProgress
\* returns, lies in [0, 1]; when updateActivityProgress has returned, the
\* activityProgress key holds the map and the history is as long as before.
C17_ProgressClamped ==
    /\ \A a \in DOMAIN activityProgress :
          /\ 0 <= activityProgress[a]
          /\ activityProgress[a] <= ProgressScale
    /\ \A a \in ProgressIds \cup ActivityIds :
          /\ 0 <= GetActivityProgress(a)
          /\ GetActivityProgress(a) <= ProgressScale
    /\ Returned("updateProgress")
       => /\ localStorage.activityProgress = Stringify(activityProgress)
          /\ Len(activityHistory) = lastCall.pre.len

\* C18: no two items of the history have the same id.
C18_UniqueIds ==
    \A i, j \in 1..Len(activityHistory) :
        i # j => activityHistory[i].id # activityHistory[j].id

\* calendar day of a start_time
DayOf(t) == t \div MsPerDay
DaysOf(h) == {DayOf(h[i].start_time) : i \in 1..Len(h)}
OnePerDay(h) == Cardinality(DaysOf(h)) = Len(h)

\* C19: for a log with one item on each of the days D, D+1, D+2,
\* getStreakInfo returns currentStreak 3; with a further item on D+4 it
\* returns longestStreak 3 and currentStreak 1.
C19_StreakGap ==
    lastCall.op = "getStreakInfo"
    => \A d \in 0..MaxDay :
          /\ (OnePerDay(activityHistory)
              /\ DaysOf(activityHistory) = {d, d + 1, d + 2})
             => lastCall.result.currentStreak = 3
          /\ (OnePerDay(activityHistory)
              /\ DaysOf(activityHistory) = {d, d + 1, d + 2, d + 4})
             => /\ lastCall.result.longestStreak = 3
                /\ lastCall.result.currentStreak = 1

\* C20: currentStreak and longestStreak never exceed the number of days
\* that have an item.
C20_SameDayOnce ==
    lastCall.op = "getStreakInfo"
    => /\ lastCall.result.currentStreak
            <= Cardinality(DaysOf(activityHistory))
       /\ lastCall.result.longestStreak
            <= Cardinality(DaysOf(activityHistory))

\* the value of a fraction
IsZero(r) == r.num = 0 /\ r.den # 0
Equals(r, a, b) == r.den # 0 /\ b # 0 /\ r.num * b = a * r.den

\* C21: for an empty log every analytics function returns zero or empty
\* values; recommendationAccuracy is 0, not the result of 0 / 0.
C21_EmptyLog ==
    activityHistory = <<>>
    => /\ lastCall.op = "getActivityStats"
          => /\ lastCall.result.totalActivities = 0
             /\ lastCall.result.completedActivities = 0
             /\ lastCall.result.totalDuration = 0
             /\ lastCall.result.totalPoints = 0
             /\ IsZero(lastCall.result.averageDuration)
             /\ IsZero(lastCall.result.completionRate)
             /\ IsZero(lastCall.result.averagePointsPerActivity)
       /\ lastCall.op = "getStreakInfo"
          => /\ lastCall.result.currentStreak = 0
             /\ lastCall.result.longestStreak = 0
       /\ lastCall.op = "getCategoryStats"
          => /\ DOMAIN lastCall.result.categories = {}
             /\ lastCall.result.categoryDistribution = <<>>
       /\ lastCall.op = "getTimeBasedStats"
          => /\ DOMAIN lastCall.result.dailyStats = {}
             /\ DOMAIN lastCall.result.weeklyStats = {}
             /\ DOMAIN lastCall.result.monthlyStats = {}
       /\ lastCall.op = "getRecommendationStats"
          => /\ lastCall.result.totalRecommendations = 0
             /\ lastCall.result.acceptedRecommendations = 0
             /\ DOMAIN lastCall.result.categoryPreferences = {}
             /\ DOMAIN lastCall.result.timeBasedPreferences = {}
             /\ ~IsNaN(lastCall.result.recommendationAccuracy)
             /\ IsZero(lastCall.result.recommendationAccuracy)

\* the items of h whose category field is c
InCategory(h, c) == SelectSeq(h, LAMBDA a : a.category = c)

\* C22: getCategoryStats has one entry per value of the items' category
\* field, whose count is the number of items of that category and whose
\* completionRate is the number of completed ones divided by count.
C22_CategoryGroups ==
    lastCall.op = "getCategoryStats"
    => \A i \in 1..Len(activityHistory) :
          LET c == activityHistory[i].category
              items == InCategory(activityHistory, c)
          IN /\ c \in DOMAIN lastCall.result.categories
             /\ lastCall.result.categories[c].count = Len(items)
             /\ Equals(lastCall.result.categories[c].completionRate,
                       Len(CompletedOf(items)), Len(items))

RECURSIVE SumRecommended(_, _)
SumRecommended(f, keys) ==
    IF keys = {} THEN 0
    ELSE LET k == CHOOSE x \in keys : TRUE IN
         f[k].recommended + SumRecommended(f, keys \ {k})

\* C23: for a non-empty log recommendationAccuracy is completed items /
\* items * 100; in every category and time-of-day bucket accepted <=
\* recommended, and the recommended counts of the buckets sum to the
\* number of items.
C23_RecommendationAccuracy ==
    (lastCall.op = "getRecommendationStats" /\ activityHistory # <<>>)
    => LET r == lastCall.result IN
       /\ Equals(r.recommendationAccuracy,
                 Len(CompletedOf(activityHistory)) * 100,
                 Len(activityHistory))
       /\ \A k \in DOMAIN r.categoryPreferences :
             r.categoryPreferences[k].accepted
                <= r.categoryPreferences[k].recommended
       /\ \A k \in DOMAIN r.timeBasedPreferences :
             r.timeBasedPreferences[k].accepted
                <= r.timeBasedPreferences[k].recommended
       /\ SumRecommended(r.categoryPreferences,
                         DOMAIN r.categoryPreferences)
            = Len(activityHistory)
       /\ SumRecommended(r.timeBasedPreferences,
                         DOMAIN r.timeBasedPreferences)
            = Len(activityHistory)

\* getRecommendationStats returned 75 for a log of four items of which
\* three are completed, spread over two categories and two times of day
C23_Witness ==
    /\ lastCall.op = "getRecommendationStats"
    /\ Len(activityHistory) = 4
    /\ Len(CompletedOf(activityHistory)) = 3
    /\ Equals(lastCall.result.recommendationAccuracy, 75, 1)
    /\ Cardinality(DOMAIN lastCall.result.categoryPreferences) = 2
    /\ Cardinality(DOMAIN lastCall.result.timeBasedPreferences) = 2

\* C24: getActivityStats().completionRate lies in [0, 100], is 0 for an
\* empty log, and is 100 exactly when the log is non-empty and every item
\* is completed.
C24_CompletionRate ==
    lastCall.op = "getActivityStats"
    => LET r == lastCall.result.completionRate IN
       /\ r.den > 0
       /\ 0 <= r.num
       /\ r.num <= 100 * r.den
       /\ activityHistory = <<>> => r.num = 0
       /\ Equals(r, 100, 1)
          <=> /\ activityHistory # <<>>
              /\ \A i \in 1..Len(activityHistory) :
                    activityHistory[i].completed

\* getActivityStats returned a rate strictly between 0 and 100
C24_Witness ==
    /\ lastCall.op = "getActivityStats"
    /\ Len(CompletedOf(activityHistory)) = 1
    /\ Len(activityHistory) = 2
    /\ Equals(lastCall.result.completionRate, 50, 1)

TimeOfDayOrder == <<"morning", "afternoon", "evening">>

\* C25: bestTimeOfDay is the bucket with the highest item count; among
\* buckets that tie, the first of morning, afternoon, evening.
C25_BestTimeOfDay ==
    (lastCall.op = "getTimeBasedStats" /\ activityHistory # <<>>)
    => LET keys == TimeOfDayKeys(activityHistory)
           best == CHOOSE i \in 1..3 :
                     /\ \A j \in 1..3 : CountOf(keys, TimeOfDayOrder[j])
                                          <= CountOf(keys, TimeOfDayOrder[i])
                     /\ \A j \in 1..(i - 1) :
                           CountOf(keys, TimeOfDayOrder[j])
                              < CountOf(keys, TimeOfDayOrder[i])
       IN lastCall.result.bestTimeOfDay = TimeOfDayOrder[best]

\* C26: when the refresh request of the response interceptor fails, with a
\* 401 or otherwise, the interceptor is done: no request is pending, the
\* two tokens are removed, the location is /login and the caller's request
\* is rejected; and no request is sent more than twice.
C26_RefreshFailureEnds ==
    /\ (http.reply.url = RefreshUrl /\ http.reply.status # "2xx")
       => /\ http.stack = <<>>
          /\ http.outcome = "rejected"
          /\ http.access_token = NoItem
          /\ http.refresh_token = NoItem
          /\ http.location = "/login"
    /\ \A i \in 1..Len(http.stack) : http.stack[i].sends <= 2

C28_ResetDuringStart ==
    (/\ Returned("start")
     /\ lastCall.pre.sess # NoSession
     /\ sessionId # lastCall.pre.sess)
    => /\ activityHistory = <<>>
       /\ activeActivity = NoActivity
       /\ startTime = NoTime

\* C29: isLoading is true whenever an operation is in flight and false
\* once every operation has returned.
C29_LoadingWhileInFlight ==
    /\ ~AllIdle => isLoading
    /\ AllIdle => ~isLoading

\* C30: whenever no call is in flight, startTime is set exactly when
\* activeActivity is set.
C30_StartTimeWithActive ==
    AllIdle => ((startTime # NoTime) <=> (activeActivity # NoActivity))

\* a start, then a complete of the started item, have returned: both cells
\* were set by the start and are cleared again
C30_Witness ==
    /\ Returned("complete")
    /\ ~lastCall.threw
    /\ lastCall.pre.st # NoTime
    /\ lastCall.pre.act # NoActivity
    /\ startTime = NoTime
    /\ activeActivity = NoActivity

====
